---------------------------- MODULE Spec2Model ----------------------------
(***************************************************************************)
(* A model of src/webviews/rebaseEditor.ts: the interactive-rebase         *)
(* instruction-file editor.  Text is a sequence of one-character strings,  *)
(* offsets are 0-based as in the source, the two module-level regular      *)
(* expressions keep their lastIndex between calls as JavaScript's global   *)
(* (/g) regular expressions do, and every await of the source is a point   *)
(* at which another handler may run.                                       *)
(***************************************************************************)
EXTENDS Integers, Sequences, FiniteSets, TLC

(***************************************************************************)
(* Characters and strings                                                  *)
(***************************************************************************)

\* \s of a JavaScript regular expression, restricted to the characters used.
WhiteSpace == {" ", "\t", "\n", "\r"}

\* The characters "." does not match and around which ^ and $ match (flag m).
LineTerminators == {"\n", "\r"}

\* [0-9a-f]
HexLower == {"0", "1", "2", "3", "4", "5", "6", "7", "8", "9", "a", "b", "c", "d", "e", "f"}

\* [0-9a-f] under the i flag
HexAnyCase == HexLower \cup {"A", "B", "C", "D", "E", "F"}

\* Case folding of the i flag, for the letters of the literals "Rebase" and "onto".
Lower(c) ==
    CASE c = "R" -> "r" [] c = "E" -> "e" [] c = "B" -> "b" [] c = "A" -> "a"
      [] c = "S" -> "s" [] c = "O" -> "o" [] c = "N" -> "n" [] c = "T" -> "t"
      [] OTHER -> c

\* The character at 0-based offset k.
At(s, k) == s[k + 1]

\* s.substring(a, b)
Sub(s, a, b) == SubSeq(s, a + 1, b)

Min(a, b) == IF a < b THEN a ELSE b
Max(a, b) == IF a > b THEN a ELSE b

StartsWith(s, i, lit) ==
    /\ i + Len(lit) <= Len(s)
    /\ \A k \in 1..Len(lit) : s[i + k] = lit[k]

StartsWithIgnoreCase(s, i, lit) ==
    /\ i + Len(lit) <= Len(s)
    /\ \A k \in 1..Len(lit) : Lower(s[i + k]) = Lower(lit[k])

IsSpaceAt(s, k) == k < Len(s) /\ At(s, k) \in WhiteSpace

\* ^ under the m flag
AtLineStart(s, i) == i = 0 \/ At(s, i - 1) \in LineTerminators

\* Where a greedy ".*" followed by "$" (m flag) ends when it starts at i: the
\* first line terminator at or after i, or the end of s.
RECURSIVE LineEnd(_, _)
LineEnd(s, i) ==
    IF i >= Len(s) \/ At(s, i) \in LineTerminators THEN i ELSE LineEnd(s, i + 1)

\* The end of the run of characters of set hex that starts at i.
RECURSIVE RunEnd(_, _, _)
RunEnd(s, i, hex) ==
    IF i >= Len(s) \/ At(s, i) \notin hex THEN i ELSE RunEnd(s, i + 1, hex)

(***************************************************************************)
(* The two regular expressions (lines 47-48) and RegExp.prototype.exec     *)
(***************************************************************************)

\* exec's null
NoMatch == [index |-> -1]

IsMatch(m) == m.index # -1

\* The alternatives of rebaseCommandsRegex's first group, in the order of line 48.
ActionTokens ==
    << <<"p">>, <<"p", "i", "c", "k">>,
       <<"r">>, <<"r", "e", "w", "o", "r", "d">>,
       <<"e">>, <<"e", "d", "i", "t">>,
       <<"s">>, <<"s", "q", "u", "a", "s", "h">>,
       <<"f">>, <<"f", "i", "x", "u", "p">>,
       <<"b">>, <<"b", "r", "e", "a", "k">>,
       <<"d">>, <<"d", "r", "o", "p">> >>

\* \s([0-9a-f]+?)\s(.*)$ at offset k, the part of rebaseCommandsRegex after the
\* action token.  The lazy group is followed by \s, so it takes the whole run of
\* hex characters and the run must end at a white-space character.
CommandTail(s, k) ==
    IF ~IsSpaceAt(s, k) THEN [ok |-> FALSE]
    ELSE LET r == k + 1
             e == RunEnd(s, r, HexLower)
         IN  IF e > r /\ IsSpaceAt(s, e)
             THEN [ok |-> TRUE, ref |-> Sub(s, r, e),
                   message |-> Sub(s, e + 1, LineEnd(s, e + 1)),
                   end |-> LineEnd(s, e + 1)]
             ELSE [ok |-> FALSE]

\* A match that starts at i and whose action token starts at j: the first
\* alternative, in source order, after which the rest of the pattern matches.
CommandFrom(s, i, j) ==
    LET fits(a) == /\ StartsWith(s, j, ActionTokens[a])
                   /\ CommandTail(s, j + Len(ActionTokens[a])).ok
        alts == {a \in 1..Len(ActionTokens) : fits(a)}
    IN  IF alts = {} THEN NoMatch
        ELSE LET a == CHOOSE x \in alts : \A y \in alts : x <= y
                 t == CommandTail(s, j + Len(ActionTokens[a]))
             IN  [index |-> i, action |-> ActionTokens[a], ref |-> t.ref,
                  message |-> t.message, end |-> t.end]

\* rebaseCommandsRegex anchored at i: ^ then the greedy \s? (one white-space
\* character, a line break included, is consumed when there is one; the empty
\* alternative is tried when that fails).
MatchCommandAt(s, i) ==
    IF ~AtLineStart(s, i) THEN NoMatch
    ELSE LET greedy == IF IsSpaceAt(s, i) THEN CommandFrom(s, i, i + 1) ELSE NoMatch
         IN  IF IsMatch(greedy) THEN greedy ELSE CommandFrom(s, i, i)

\* \sonto\s([0-9a-f]+?)\s.*$ at offset e (flags i, m).
HeaderTail(s, e) ==
    IF ~(IsSpaceAt(s, e) /\ StartsWithIgnoreCase(s, e + 1, <<"o", "n", "t", "o">>)
         /\ IsSpaceAt(s, e + 5))
    THEN [ok |-> FALSE]
    ELSE LET o == e + 6
             oe == RunEnd(s, o, HexAnyCase)
         IN  IF oe > o /\ IsSpaceAt(s, oe)
             THEN [ok |-> TRUE, onto |-> Sub(s, o, oe), end |-> LineEnd(s, oe + 1)]
             ELSE [ok |-> FALSE]

\* ([0-9a-f]+?)..([0-9a-f]+?)\sonto... at offset p with the first group n long.
HeaderRange(s, p, n) ==
    LET q == p + n + 2
    IN  IF ~(q <= Len(s) /\ At(s, p + n) \notin LineTerminators
             /\ At(s, p + n + 1) \notin LineTerminators)
        THEN [ok |-> FALSE]
        ELSE LET te == RunEnd(s, q, HexAnyCase)
             IN  IF te > q /\ HeaderTail(s, te).ok
                 THEN [ok |-> TRUE, from |-> Sub(s, p, p + n), to |-> Sub(s, q, te),
                       onto |-> HeaderTail(s, te).onto, end |-> HeaderTail(s, te).end]
                 ELSE [ok |-> FALSE]

\* Rebase\s([0-9a-f]+?)..  at offset k: the lazy first group takes the fewest
\* characters with which the rest matches.
HeaderWord(s, i, k) ==
    IF ~(StartsWithIgnoreCase(s, k, <<"R", "e", "b", "a", "s", "e">>) /\ IsSpaceAt(s, k + 6))
    THEN NoMatch
    ELSE LET p == k + 7
             fe == RunEnd(s, p, HexAnyCase)
             ns == {n \in 1..(fe - p) : HeaderRange(s, p, n).ok}
         IN  IF ns = {} THEN NoMatch
             ELSE LET n == CHOOSE x \in ns : \A y \in ns : x <= y
                      h == HeaderRange(s, p, n)
                  IN  [index |-> i, from |-> h.from, to |-> h.to, onto |-> h.onto,
                       end |-> h.end]

\* #\s?Rebase... at offset j.
HeaderFrom(s, i, j) ==
    IF ~(j < Len(s) /\ At(s, j) = "#") THEN NoMatch
    ELSE LET greedy == IF IsSpaceAt(s, j + 1) THEN HeaderWord(s, i, j + 2) ELSE NoMatch
         IN  IF IsMatch(greedy) THEN greedy ELSE HeaderWord(s, i, j + 1)

\* rebaseRegex anchored at i.
MatchHeaderAt(s, i) ==
    IF ~AtLineStart(s, i) THEN NoMatch
    ELSE LET greedy == IF IsSpaceAt(s, i) THEN HeaderFrom(s, i, i + 1) ELSE NoMatch
         IN  IF IsMatch(greedy) THEN greedy ELSE HeaderFrom(s, i, i)

\* rebaseRegex.exec(s) with rebaseRegex.lastIndex = lastIndex: the leftmost
\* match starting at or after lastIndex, or null.
RECURSIVE ExecRebaseRegex(_, _)
ExecRebaseRegex(s, lastIndex) ==
    IF lastIndex > Len(s) THEN NoMatch
    ELSE IF IsMatch(MatchHeaderAt(s, lastIndex)) THEN MatchHeaderAt(s, lastIndex)
    ELSE ExecRebaseRegex(s, lastIndex + 1)

\* rebaseCommandsRegex.exec(s) with rebaseCommandsRegex.lastIndex = lastIndex.
RECURSIVE ExecRebaseCommandsRegex(_, _)
ExecRebaseCommandsRegex(s, lastIndex) ==
    IF lastIndex > Len(s) THEN NoMatch
    ELSE IF IsMatch(MatchCommandAt(s, lastIndex)) THEN MatchCommandAt(s, lastIndex)
    ELSE ExecRebaseCommandsRegex(s, lastIndex + 1)

\* The lastIndex exec leaves behind: the end of the match, or 0 after a failure.
LastIndexAfter(m) == IF IsMatch(m) THEN m.end ELSE 0

\* rebaseActionsMap.get(action) ?? 'pick'
RebaseAction(token) ==
    CASE token \in {<<"p">>, <<"p", "i", "c", "k">>} -> <<"p", "i", "c", "k">>
      [] token \in {<<"r">>, <<"r", "e", "w", "o", "r", "d">>} -> <<"r", "e", "w", "o", "r", "d">>
      [] token \in {<<"e">>, <<"e", "d", "i", "t">>} -> <<"e", "d", "i", "t">>
      [] token \in {<<"s">>, <<"s", "q", "u", "a", "s", "h">>} -> <<"s", "q", "u", "a", "s", "h">>
      [] token \in {<<"f">>, <<"f", "i", "x", "u", "p">>} -> <<"f", "i", "x", "u", "p">>
      [] token \in {<<"b">>, <<"b", "r", "e", "a", "k">>} -> <<"b", "r", "e", "a", "k">>
      [] token \in {<<"d">>, <<"d", "r", "o", "p">>} -> <<"d", "r", "o", "p">>
      [] OTHER -> <<"p", "i", "c", "k">>

\* The entry pushed at lines 128-135.
EntryOf(m) ==
    [index |-> m.index, action |-> RebaseAction(m.action), ref |-> m.ref,
     message |-> m.message]

(***************************************************************************)
(* The TextDocument and WorkspaceEdit operations the handlers use          *)
(***************************************************************************)

\* Offsets of the line breaks of s, which end its lines.
Breaks(s) == {k \in 0..(Len(s) - 1) : At(s, k) = "\n"}

\* document.lineCount
LineCount(s) == Cardinality(Breaks(s)) + 1

\* Offset of the first character of line l (0-based), l < LineCount(s).
LineStart(s, l) ==
    IF l = 0 THEN 0
    ELSE 1 + (CHOOSE k \in Breaks(s) : Cardinality({b \in Breaks(s) : b < k}) = l - 1)

\* Length of line l without its line break.
LineLength(s, l) == LineEnd(s, LineStart(s, l)) - LineStart(s, l)

\* The text of line l without its line break.
LineText(s, l) == Sub(s, LineStart(s, l), LineStart(s, l) + LineLength(s, l))

\* document.positionAt(offset).line: the offset is clamped to the text.
LineAt(s, offset) ==
    LET o == Max(0, Min(offset, Len(s)))
    IN  Cardinality({b \in Breaks(s) : b < o})

\* The offset of Position(l, c) once the host has validated it: a line past the
\* end becomes the end of the text, a column past the end of the line its end.
OffsetAt(s, l, c) ==
    IF l >= LineCount(s) THEN Len(s)
    ELSE LineStart(s, l) + Min(c, LineLength(s, l))

\* One text edit: the range [start, end) is replaced by newText.
TextEdit(start, end, newText) == [start |-> start, end |-> end, newText |-> newText]

\* workspace.applyEdit of a WorkspaceEdit holding edits, whose ranges are all
\* relative to s: the edits are applied from the end of the text backwards.
RECURSIVE ApplyEdits(_, _)
ApplyEdits(s, edits) ==
    IF edits = {} THEN s
    ELSE LET last == CHOOSE x \in edits : \A y \in edits :
                         \/ y.start < x.start
                         \/ (y.start = x.start /\ y.end <= x.end)
         IN  ApplyEdits(Sub(s, 0, last.start) \o last.newText \o Sub(s, last.end, Len(s)),
                        edits \ {last})

(***************************************************************************)
(* parseState run alone: what lines 114-161 compute from contents when no  *)
(* other parse runs between its steps                                      *)
(***************************************************************************)

\* A destructuring without the fallback of line 116: no match leaves from, to
\* and onto undefined.
HeaderOfUndefined(m) ==
    IF IsMatch(m) THEN [from |-> m.from, to |-> m.to, onto |-> m.onto]
    ELSE [from |-> <<"undefined">>, to |-> <<"undefined">>, onto |-> <<"undefined">>]

\* const [, from, to, onto] = match ?? ['', '', ''], then the ?? '' of 156-158.
HeaderOf(m) ==
    IF IsMatch(m) THEN [from |-> m.from, to |-> m.to, onto |-> m.onto]
    ELSE [from |-> <<>>, to |-> <<>>, onto |-> <<>>]

\* The do-while loop of lines 122-152 run without interruption from lastIndex.
RECURSIVE ScanEntries(_, _)
ScanEntries(s, lastIndex) ==
    LET m == ExecRebaseCommandsRegex(s, lastIndex)
    IN  IF ~IsMatch(m) THEN <<>>
        ELSE <<EntryOf(m)>> \o ScanEntries(s, LastIndexAfter(m))

\* A parse of s with both regular expressions fresh (lastIndex = 0).
FreshParse(s) ==
    [header |-> HeaderOf(ExecRebaseRegex(s, 0)), entries |-> ScanEntries(s, 0)]

(***************************************************************************)
(* Edit planning (lines 212-258)                                           *)
(***************************************************************************)

\* Number.MAX_SAFE_INTEGER (2^53 - 1), held in 32 bits here: the counter wraps
\* at the largest representable integer.
MAX_SAFE_INTEGER == 2147483647

Space == <<" ">>

Newline == <<"\n">>

\* state.entries.findIndex(e => e.ref === ref), 1-based; 0 when there is none.
FindIndex(entries, ref) ==
    LET hits == {i \in 1..Len(entries) : entries[i].ref = ref}
    IN  IF hits = {} THEN 0 ELSE CHOOSE i \in hits : \A j \in hits : i <= j

\* Lines 219-225: the edits of a changeEntry request for entry on document s.
ChangeEntryEdits(s, entry, action) ==
    LET line == LineAt(s, entry.index)
    IN  {TextEdit(OffsetAt(s, line, 0), OffsetAt(s, line, MAX_SAFE_INTEGER),
                  action \o Space \o entry.ref \o Space \o entry.message)}

\* A boundary guard that takes the entry before the last for the last.
MoveIsNoOpOffByOne(entries, index, down) ==
    (~down /\ index = 1) \/ (down /\ index = Len(entries) - 1)

\* Lines 239-241: the boundary guard of a moveEntry request; index is 1-based.
MoveIsNoOp(entries, index, down) ==
    \/ (~down /\ index = 1)
    \/ (down /\ index = Len(entries))

\* Lines 243-254: the edits of a moveEntry request for entry on document s.
\* new Position(line, 0) throws for a negative line, and then no edit is made.
MoveEntryEdits(s, entry, down) ==
    LET line == LineAt(s, entry.index)
        target == line + (IF down THEN 2 ELSE -1)
    IN  IF target < 0 THEN {}
        ELSE {TextEdit(OffsetAt(s, line, 0), OffsetAt(s, line + 1, 0), <<>>),
              TextEdit(OffsetAt(s, target, 0), OffsetAt(s, target, 0),
                       entry.action \o Space \o entry.ref \o Space \o entry.message
                           \o Newline)}

\* Line 204: the edit of an abort request on document s.
AbortEdits(s) == {TextEdit(OffsetAt(s, 0, 0), OffsetAt(s, LineCount(s), 0), <<>>)}

\* A counter that wraps to 0.
NextIpcIdWrapsToZero(seq) == IF seq = MAX_SAFE_INTEGER THEN 0 ELSE seq + 1

\* nextIpcId (lines 37-45): the next value of ipcSequence.
NextIpcId(seq) == IF seq = MAX_SAFE_INTEGER THEN 1 ELSE seq + 1

\* A listener that ignores only the events that fail both tests of line 95.
IgnoresEventOnlyIfBoth(contentChanges, sameDocument) ==
    contentChanges = 0 /\ ~sameDocument

\* Line 95: the text-change events the listener ignores.
IgnoresEvent(contentChanges, sameDocument) == contentChanges = 0 \/ ~sameDocument

\* Logger.isDebugging (line 268): a production build.
IsDebugging == FALSE

\* Container.git.getCommit(repoPath, ref): the refs the repository resolves.
KnownRefs == {<<"a">>, <<"b">>}

(***************************************************************************)
(* Input texts                                                             *)
(***************************************************************************)

Pick == <<"p", "i", "c", "k">>

Reword == <<"r", "e", "w", "o", "r", "d">>

Squash == <<"s", "q", "u", "a", "s", "h">>

Drop == <<"d", "r", "o", "p">>

\* "# Rebase a..b onto c x\n"
HeaderLine ==
    <<"#", " ", "R", "e", "b", "a", "s", "e", " ", "a", ".", ".", "b", " ",
      "o", "n", "t", "o", " ", "c", " ", "x", "\n">>

\* "# c\n"
CommentLine == <<"#", " ", "c", "\n">>

\* "<action> <ref> <message>\n"
EntryLine(action, ref, message) ==
    action \o Space \o <<ref>> \o Space \o <<message>> \o Newline

\* "pick a m\npick b n\n"
TextTwo == EntryLine(Pick, "a", "m") \o EntryLine(Pick, "b", "n")

\* "# Rebase a..b onto c x\npick b n\npick a m\n"
TextHeader == HeaderLine \o EntryLine(Pick, "b", "n") \o EntryLine(Pick, "a", "m")

\* "pick b n\n"
TextOne == EntryLine(Pick, "b", "n")

\* The texts of the interleaved specifications.
Texts == {TextTwo, TextOne}

\* The texts of the run-to-completion specification: the ones above, one with
\* a header, then a blank line before an entry, two blank lines before an entry, no final line
\* break, an alias with leading white space and a comment between entries, a
\* ref used twice, tabs, and an entry without message before another entry.
SeqTexts ==
    Texts \cup
    { TextHeader,
      Newline \o TextTwo,
      EntryLine(Pick, "a", "m") \o Newline \o Newline \o EntryLine(Squash, "b", "n"),
      EntryLine(Pick, "a", "m") \o <<"p", "i", "c", "k", " ", "b", " ", "n">>,
      <<" ", "p", " ", "a", " ", "m", "\n">> \o CommentLine \o EntryLine(Drop, "b", "n"),
      EntryLine(Pick, "a", "m") \o EntryLine(Squash, "b", "n") \o EntryLine(Pick, "a", "k"),
      <<"p", "i", "c", "k", "\t", "a", "\t", "m", "\n">> \o EntryLine(Pick, "b", "n")
          \o CommentLine,
      <<"p", "i", "c", "k", " ", "a", "\n">> \o EntryLine(Pick, "b", "n")
          \o EntryLine(Pick, "c", "k") }

(***************************************************************************)
(* State                                                                   *)
(***************************************************************************)

VARIABLES
    text,                \* document.getText(): the text the document holds
    saved,               \* the text last persisted by document.save()
    rebaseRegex,         \* rebaseRegex.lastIndex (line 47)
    rebaseCommandsRegex, \* rebaseCommandsRegex.lastIndex (line 48)
    ipcSequence,         \* line 36
    html,                \* this._html (line 262): <<>> or <<the bootstrap state>>
    panel,               \* the editor's panel: "none", "loading", "open", "disposed"
    panelId,             \* how many panels resolveCustomTextEditor has been given
    tasks,               \* the handler invocations, in the order they started
    posted,              \* the messages handed to panel.webview.postMessage
    held,                \* history: every text the document has held
    nChanges             \* history: text-change events with content changes heard

vars ==
    <<text, saved, rebaseRegex, rebaseCommandsRegex, ipcSequence, html, panel,
      panelId, tasks, posted, held, nChanges>>

NoText == <<"none">>

NoEdit == [made |-> FALSE]

NoHeader == [from |-> <<>>, to |-> <<>>, onto |-> <<>>]

\* A handler invocation.  kind: "resolve" (resolveCustomTextEditor), "didChange"
\* (parseDocumentAndSendChange), "start", "abort", "changeEntry", "moveEntry".
\* pc names the await the invocation is suspended at, "done" when it has ended.
\* event, pre, post, edit, did and persisted are history: the event that
\* started it, the text when the request arrived, the text when the handler
\* ended, the edit it applied (the text it was applied to, the line it replaced
\* or deleted and the text that resulted), the host operations it has seen
\* completed, and the text its save persisted.
NewTask(kind, pc, pid, ref, action, down, event, pre) ==
    [kind |-> kind, pc |-> pc, ref |-> ref, action |-> action, down |-> down,
     panelId |-> pid,
     contents |-> NoText, header |-> NoHeader, entries |-> <<>>, commits |-> <<>>,
     event |-> event, pre |-> pre, post |-> NoText, edit |-> NoEdit, did |-> <<>>,
     persisted |-> NoText]

TextEvent(contentChanges, sameDocument) ==
    [contentChanges |-> contentChanges, sameDocument |-> sameDocument]

NoEvent == TextEvent(0, FALSE)

\* An ended invocation; its record stays as it was at the end.
Ended(tk) == [tk EXCEPT !.pc = "done"]

\* The listeners of lines 91-99 are registered: the panel is not disposed.
Listening == panel \in {"loading", "open"}

\* The onDidChangeTextDocument listener (lines 94-98) called with event e while
\* the invocations are ts: unless the event is ignored,
\* parseDocumentAndSendChange starts and suspends at its first await.
Heard(ts, e) ==
    IF Listening /\ ~IgnoresEvent(e.contentChanges, e.sameDocument)
    THEN Append(ts, NewTask("didChange", "getRepoPath", panelId, <<>>, <<>>, FALSE,
                            e, NoText))
    ELSE ts

\* History: the events with content changes of this document heard so far.
HeardCount(e) ==
    IF Listening /\ e.contentChanges > 0 /\ e.sameDocument THEN nChanges + 1
    ELSE nChanges

InitCommon ==
    /\ saved = text
    /\ rebaseRegex = 0
    /\ rebaseCommandsRegex = 0
    /\ ipcSequence = 0
    /\ html = <<>>
    /\ panel = "none"
    /\ panelId = 0
    /\ tasks = <<>>
    /\ posted = <<>>
    /\ held = {text}
    /\ nChanges = 0

Init == text \in Texts /\ InitCommon

InitSeq == text \in SeqTexts /\ InitCommon

(***************************************************************************)
(* Events from the host and requests from the presentation surface         *)
(***************************************************************************)

\* resolveCustomTextEditor (lines 84-102) up to the awaits of getHtml.  With
\* this._html set, getHtml returns it at line 279 and the panel shows the cached
\* markup.  Otherwise the markup file is read and parseState is called (line
\* 290); nothing between the await of the file and parseState's await of
\* getRepoPath reads or writes the state, so the two are one suspension.
Resolve ==
    /\ panel \in {"none", "disposed"}
    /\ panelId' = panelId + 1
    /\ IF ~IsDebugging /\ html # <<>>
       THEN /\ panel' = "open"
            /\ tasks' = tasks
       ELSE /\ panel' = "loading"
            /\ tasks' = Append(tasks, NewTask("resolve", "getRepoPath", panelId + 1, <<>>,
                                              <<>>, FALSE, NoEvent, NoText))
    /\ UNCHANGED <<text, saved, rebaseRegex, rebaseCommandsRegex, ipcSequence, html,
                   posted, held, nChanges>>

\* Another source (the user typing, git) replaces the document's text by newText
\* while the editor is open; the host then fires onDidChangeTextDocument with
\* one content change.  (A change made while no editor is open is a different
\* text to open the editor on.)
ExternalEdit(newText) ==
    /\ Listening
    /\ newText # text
    /\ text' = newText
    /\ held' = held \cup {newText}
    /\ tasks' = Heard(tasks, TextEvent(1, TRUE))
    /\ nChanges' = HeardCount(TextEvent(1, TRUE))
    /\ UNCHANGED <<saved, rebaseRegex, rebaseCommandsRegex, ipcSequence, html, panel,
                   panelId, posted>>

\* onDidChangeTextDocument fired for an event that is not a change of this
\* document's content (no content changes, or another document).
OnDidChangeTextDocument(e) ==
    /\ Listening
    /\ ~(e.contentChanges > 0 /\ e.sameDocument)
    /\ tasks' = Heard(tasks, e)
    /\ UNCHANGED <<text, saved, rebaseRegex, rebaseCommandsRegex, ipcSequence, html,
                   panel, panelId, posted, held, nChanges>>

\* Does the host fire a change event for these edits: some edit removes or adds text.
ChangesContent(edits) == \E e \in edits : e.start # e.end \/ e.newText # <<>>

\* workspace.applyEdit(edits) called by invocation t (whose record becomes tk):
\* the edits, computed from the document as it is, are applied to it and the
\* change is heard by the listener.  The await of applyEdit is the last
\* statement of changeEntry and moveEntry, which end here; abort goes on.
ApplyEdit(t, tk, edits, line) ==
    LET e == IF ChangesContent(edits) THEN TextEvent(1, TRUE) ELSE TextEvent(0, TRUE)
        after == ApplyEdits(text, edits)
        mine == [tk EXCEPT !.pc = IF tk.kind = "abort" THEN "applyEdit" ELSE "done",
                           !.edit = [made |-> TRUE, at |-> text, line |-> line,
                                     result |-> after],
                           !.post = IF tk.kind = "abort" THEN NoText ELSE after,
                           !.did = Append(@, "edit")]
    IN  /\ text' = after
        /\ held' = held \cup {after}
        /\ tasks' = Heard(IF t > Len(tasks) THEN Append(tasks, mine)
                          ELSE [tasks EXCEPT ![t] = mine], e)
        /\ nChanges' = HeardCount(e)

\* A start request that falls through to the edit of the abort request.
ReceiveStartThenEmpty ==
    /\ panel = "open"
    /\ ApplyEdit(Len(tasks) + 1,
                 NewTask("start", "save", panelId, <<>>, <<>>, FALSE, NoEvent, text),
                 AbortEdits(text), 0)
    /\ UNCHANGED <<saved, rebaseRegex, rebaseCommandsRegex, ipcSequence, html, panel,
                   panelId, posted>>

\* onMessageReceived, rebase/start (lines 192-198): document.save() is called.
ReceiveStart ==
    /\ panel = "open"
    /\ tasks' = Append(tasks, NewTask("start", "save", panelId, <<>>, <<>>, FALSE,
                                      NoEvent, text))
    /\ UNCHANGED <<text, saved, rebaseRegex, rebaseCommandsRegex, ipcSequence, html,
                   panel, panelId, posted, held, nChanges>>

\* onMessageReceived, rebase/abort (lines 200-210) up to the await of applyEdit.
ReceiveAbort ==
    /\ panel = "open"
    /\ ApplyEdit(Len(tasks) + 1,
                 NewTask("abort", "applyEdit", panelId, <<>>, <<>>, FALSE, NoEvent, text),
                 AbortEdits(text), 0)
    /\ UNCHANGED <<saved, rebaseRegex, rebaseCommandsRegex, ipcSequence, html, panel,
                   panelId, posted>>

\* onMessageReceived, rebase/changeEntry (lines 212-214) up to the first await
\* of parseState.
ReceiveChangeEntry(ref, action) ==
    /\ panel = "open"
    /\ tasks' = Append(tasks, NewTask("changeEntry", "getRepoPath", panelId, ref, action,
                                      FALSE, NoEvent, text))
    /\ UNCHANGED <<text, saved, rebaseRegex, rebaseCommandsRegex, ipcSequence, html,
                   panel, panelId, posted, held, nChanges>>

\* onMessageReceived, rebase/moveEntry (lines 231-233) up to the first await of
\* parseState.
ReceiveMoveEntry(ref, down) ==
    /\ panel = "open"
    /\ tasks' = Append(tasks, NewTask("moveEntry", "getRepoPath", panelId, ref, <<>>,
                                      down, NoEvent, text))
    /\ UNCHANGED <<text, saved, rebaseRegex, rebaseCommandsRegex, ipcSequence, html,
                   panel, panelId, posted, held, nChanges>>

(***************************************************************************)
(* What runs when parseState returns to its caller                         *)
(***************************************************************************)

\* The RebaseState of lines 154-161 (the branch name is left out).
StateOf(tk) ==
    [from |-> tk.header.from, to |-> tk.header.to, onto |-> tk.header.onto,
     entries |-> tk.entries, commits |-> tk.commits]

\* A push that carries an identifier fixed when the event was heard: the place
\* of its invocation among the invocations.
SendChangeWithEventId(t, tk) ==
    /\ ipcSequence' = NextIpcId(ipcSequence)
    /\ posted' = Append(posted,
                        [id |-> t, method |-> "rebase/didChange",
                         params |-> StateOf(tk), task |-> t,
                         delivered |-> (tk.panelId = panelId /\ panel = "open")])
    /\ tasks' = [tasks EXCEPT ![t] = Ended(tk)]
    /\ UNCHANGED <<text, saved, html, panel, panelId, held, nChanges>>

\* A push whose panel.webview.postMessage throws with nothing to catch it: the
\* rejection leaves the handler in an error state and nothing is recorded.
SendChangeUncaught(t, tk) ==
    /\ ipcSequence' = NextIpcId(ipcSequence)
    /\ IF tk.panelId = panelId /\ panel = "open"
       THEN /\ posted' = Append(posted,
                                [id |-> NextIpcId(ipcSequence),
                                 method |-> "rebase/didChange",
                                 params |-> StateOf(tk), task |-> t, delivered |-> TRUE])
            /\ tasks' = [tasks EXCEPT ![t] = Ended(tk)]
       ELSE /\ posted' = posted
            /\ tasks' = [tasks EXCEPT ![t] = [tk EXCEPT !.pc = "rejected"]]
    /\ UNCHANGED <<text, saved, html, panel, panelId, held, nChanges>>

\* parseDocumentAndSendChange after its await (lines 166-170) and postMessage
\* (lines 173-181): the message reaches the presentation surface when the
\* panel of the invocation shows the editor.
SendChange(t, tk) ==
    /\ ipcSequence' = NextIpcId(ipcSequence)
    /\ posted' = Append(posted,
                        [id |-> NextIpcId(ipcSequence), method |-> "rebase/didChange",
                         params |-> StateOf(tk), task |-> t,
                         delivered |-> (tk.panelId = panelId /\ panel = "open")])
    /\ tasks' = [tasks EXCEPT ![t] = Ended(tk)]
    /\ UNCHANGED <<text, saved, html, panel, panelId, held, nChanges>>

\* getHtml after line 290 and line 101: the bootstrap state goes into the
\* markup, the markup is cached and shown by the panel it was made for.
SetHtml(t, tk) ==
    /\ html' = <<StateOf(tk)>>
    /\ panel' = IF tk.panelId = panelId /\ panel = "loading" THEN "open" ELSE panel
    /\ tasks' = [tasks EXCEPT ![t] = Ended(tk)]
    /\ UNCHANGED <<text, saved, ipcSequence, panelId, posted, held, nChanges>>

\* The invocation ends without an edit.
NoEditMade(t, tk) ==
    /\ tasks' = [tasks EXCEPT ![t] = [Ended(tk) EXCEPT !.post = text]]
    /\ UNCHANGED <<text, held, nChanges>>

\* The changeEntry handler after its await (lines 216-226).
ChangeEntry(t, tk) ==
    LET index == FindIndex(tk.entries, tk.ref)
    IN  /\ IF index = 0 THEN NoEditMade(t, tk)
           ELSE ApplyEdit(t, tk, ChangeEntryEdits(text, tk.entries[index], tk.action),
                          LineAt(text, tk.entries[index].index))
        /\ UNCHANGED <<saved, ipcSequence, html, panel, panelId, posted>>

\* The moveEntry handler after its await (lines 235-255).
MoveEntry(t, tk) ==
    LET index == FindIndex(tk.entries, tk.ref)
    IN  /\ IF index = 0 THEN NoEditMade(t, tk)
           ELSE IF MoveIsNoOp(tk.entries, index, tk.down) THEN NoEditMade(t, tk)
           ELSE IF MoveEntryEdits(text, tk.entries[index], tk.down) = {}
                THEN NoEditMade(t, tk)
           ELSE ApplyEdit(t, tk, MoveEntryEdits(text, tk.entries[index], tk.down),
                          LineAt(text, tk.entries[index].index))
        /\ UNCHANGED <<saved, ipcSequence, html, panel, panelId, posted>>

\* parseState returns to the caller that awaits it.
Return(t, tk) ==
    CASE tk.kind = "didChange" -> SendChange(t, tk)
      [] tk.kind = "resolve" -> SetHtml(t, tk)
      [] tk.kind = "changeEntry" -> ChangeEntry(t, tk)
      [] tk.kind = "moveEntry" -> MoveEntry(t, tk)

(***************************************************************************)
(* parseState (lines 104-162), one action for each stretch between awaits  *)
(***************************************************************************)

\* One turn of the do-while loop from line 123: the next match becomes an entry
\* and getCommit is awaited, or there is none and parseState returns.
Scan(t, tk) ==
    LET m == ExecRebaseCommandsRegex(tk.contents, rebaseCommandsRegex)
    IN  /\ rebaseCommandsRegex' = LastIndexAfter(m)
        /\ IF IsMatch(m)
           THEN /\ tasks' = [tasks EXCEPT ![t] =
                               [tk EXCEPT !.entries = Append(@, EntryOf(m)),
                                          !.pc = "getCommit"]]
                /\ UNCHANGED <<text, saved, ipcSequence, html, panel, panelId, posted,
                               held, nChanges>>
           ELSE Return(t, tk)

\* getRepoPath returns (line 105); the text is read (line 107); getBranch is awaited.
GetText(t) ==
    /\ tasks[t].pc = "getRepoPath"
    /\ tasks' = [tasks EXCEPT ![t].pc = "getBranch", ![t].contents = text]
    /\ UNCHANGED <<text, saved, rebaseRegex, rebaseCommandsRegex, ipcSequence, html,
                   panel, panelId, posted, held, nChanges>>

\* getBranch returns (line 112); the header is matched (lines 115-116) and the
\* loop is entered.
ScanFirst(t) ==
    /\ tasks[t].pc = "getBranch"
    /\ LET m == ExecRebaseRegex(tasks[t].contents, rebaseRegex)
       IN  /\ rebaseRegex' = LastIndexAfter(m)
           /\ Scan(t, [tasks[t] EXCEPT !.header = HeaderOf(m)])

\* A loop that pushes a placeholder for a ref that getCommit does not resolve.
ScanNextWithPlaceholder(t) ==
    /\ tasks[t].pc = "getCommit"
    /\ LET ref == tasks[t].entries[Len(tasks[t].entries)].ref
       IN  Scan(t, [tasks[t] EXCEPT !.commits =
                       IF ref \in KnownRefs THEN Append(@, ref) ELSE Append(@, <<>>)])
    /\ UNCHANGED rebaseRegex

\* getCommit returns (line 137); a resolved commit is pushed (lines 138-151) and
\* the loop goes on.
ScanNext(t) ==
    /\ tasks[t].pc = "getCommit"
    /\ LET ref == tasks[t].entries[Len(tasks[t].entries)].ref
       IN  Scan(t, [tasks[t] EXCEPT !.commits =
                       IF ref \in KnownRefs THEN Append(@, ref) ELSE @])
    /\ UNCHANGED rebaseRegex

(***************************************************************************)
(* The start and abort handlers after their awaits                         *)
(***************************************************************************)

\* workspace.applyEdit returns to abort, which calls document.save() (line 206).
EditApplied(t) ==
    /\ tasks[t].pc = "applyEdit"
    /\ tasks' = [tasks EXCEPT ![t].pc = "save"]
    /\ UNCHANGED <<text, saved, rebaseRegex, rebaseCommandsRegex, ipcSequence, html,
                   panel, panelId, posted, held, nChanges>>

\* document.save() completes (lines 194, 206): the text the document holds is
\* persisted, the host reports the change of the dirty state as a text-change
\* event without content changes, and closeActiveEditor is requested.
Saved(t) ==
    /\ tasks[t].pc = "save"
    /\ saved' = text
    /\ tasks' = Heard([tasks EXCEPT ![t].pc = "close",
                                    ![t].did = Append(@, "save"),
                                    ![t].persisted = text],
                      TextEvent(0, TRUE))
    /\ UNCHANGED <<text, rebaseRegex, rebaseCommandsRegex, ipcSequence, html, panel,
                   panelId, posted, held, nChanges>>

\* workbench.action.closeActiveEditor completes (lines 195, 207): the panel is
\* disposed and with it the listeners (line 87).
Closed(t) ==
    /\ tasks[t].pc = "close"
    /\ panel' = IF Listening THEN "disposed" ELSE panel
    /\ tasks' = [tasks EXCEPT ![t] = Ended([tasks[t] EXCEPT !.did = Append(@, "close"),
                                                           !.post = text])]
    /\ UNCHANGED <<text, saved, rebaseRegex, rebaseCommandsRegex, ipcSequence, html,
                   panelId, posted, held, nChanges>>

\* Invocation t runs from the await it is suspended at to its next await.
Step(t) ==
    \/ GetText(t)
    \/ ScanFirst(t)
    \/ ScanNext(t)
    \/ EditApplied(t)
    \/ Saved(t)
    \/ Closed(t)

(***************************************************************************)
(* Specifications                                                          *)
(***************************************************************************)

\* Invocations started in one behaviour of the interleaved specification.
MaxTasks == 3

\* Invocations started in one behaviour of the deeper interleaved specification.
MaxRaceTasks == 5

\* Invocations started in one behaviour of the run-to-completion specification.
MaxSeqTasks == 5

\* Invocations that may still start one more (the push after their edit).
Reserved ==
    Cardinality({t \in 1..Len(tasks) :
                    /\ tasks[t].kind \in {"changeEntry", "moveEntry"}
                    /\ tasks[t].pc \in {"getRepoPath", "getBranch", "getCommit"}})

Room(n, max) == Len(tasks) + Reserved + n <= max

\* The text-change events that are not changes of this document's content.
OtherEvents == {TextEvent(0, TRUE), TextEvent(0, FALSE), TextEvent(1, FALSE)}

Refs == {<<"b">>}

SeqRefs == {<<"a">>, <<"b">>, <<"9">>}

Actions == {Drop}

SeqActions == {Reword, Pick}

\* Handlers interleave at their awaits; at most max invocations start.
NextWithin(max) ==
    \/ Room(1, max) /\ Resolve
    \/ \E newText \in Texts : Room(1, max) /\ ExternalEdit(newText)
    \/ \E e \in OtherEvents : Room(1, max) /\ OnDidChangeTextDocument(e)
    \/ Room(1, max) /\ ReceiveStart
    \/ Room(2, max) /\ ReceiveAbort
    \/ \E ref \in Refs, action \in Actions :
          Room(2, max) /\ ReceiveChangeEntry(ref, action)
    \/ \E ref \in Refs, down \in BOOLEAN :
          Room(2, max) /\ ReceiveMoveEntry(ref, down)
    \/ \E t \in 1..Len(tasks) : Step(t)

Next == NextWithin(MaxTasks)

Spec == Init /\ [][Next]_vars

\* Invocation t has started and has not ended.
Suspended(t) == t <= Len(tasks) /\ tasks[t].pc # "done"

\* Every suspended invocation is resumed: the host's calls return.  This is
\* WF_vars(Step(t)) for each invocation, with the enabling condition written
\* out: Step(t) is enabled exactly when t is suspended, since each await has
\* one continuation and every continuation changes the invocation's record.
FairSpec ==
    Spec /\ \A t \in 1..MaxTasks : <>[]Suspended(t) => []<><<Step(t)>>_vars

\* Requests only, overlapping: no other source changes the text.
NextRace ==
    \/ Room(1, MaxRaceTasks) /\ Resolve
    \/ Room(2, MaxRaceTasks) /\ ReceiveAbort
    \/ \E ref \in Refs, action \in Actions :
          Room(2, MaxRaceTasks) /\ ReceiveChangeEntry(ref, action)
    \/ \E ref \in Refs : Room(2, MaxRaceTasks) /\ ReceiveMoveEntry(ref, FALSE)
    \/ \E t \in 1..Len(tasks) : Step(t)

InitRace == text = TextTwo /\ InitCommon

SpecRace == InitRace /\ [][NextRace]_vars

\* No invocation is suspended.
Quiet == \A t \in 1..Len(tasks) : tasks[t].pc = "done"

\* t is the invocation that started first among those that have not ended.
Oldest(t) == tasks[t].pc # "done" /\ \A u \in 1..(t - 1) : tasks[u].pc = "done"

\* Every handler runs to its end before the next event or request is handled;
\* room is kept for two invocations for each event or request.
NextSeq ==
    \/ Quiet /\ Room(1, MaxSeqTasks) /\ Resolve
    \/ \E newText \in Texts : Quiet /\ Room(2, MaxSeqTasks) /\ ExternalEdit(newText)
    \/ \E e \in OtherEvents : Quiet /\ Room(2, MaxSeqTasks) /\ OnDidChangeTextDocument(e)
    \/ Quiet /\ Room(2, MaxSeqTasks) /\ ReceiveStart
    \/ Quiet /\ Room(2, MaxSeqTasks) /\ ReceiveAbort
    \/ \E ref \in SeqRefs, action \in SeqActions :
          Quiet /\ Room(2, MaxSeqTasks) /\ ReceiveChangeEntry(ref, action)
    \/ \E ref \in SeqRefs, down \in BOOLEAN :
          Quiet /\ Room(2, MaxSeqTasks) /\ ReceiveMoveEntry(ref, down)
    \/ \E t \in 1..Len(tasks) : Oldest(t) /\ Step(t)

SpecSeq == InitSeq /\ [][NextSeq]_vars

(***************************************************************************)
(* Properties                                                              *)
(***************************************************************************)

Tasks == 1..Len(tasks)

Done(t) == tasks[t].pc = "done"

\* The header fields and the entries of a parse result.
Parsed(header, entries) ==
    [from |-> header.from, to |-> header.to, onto |-> header.onto, entries |-> entries]

\* What an isolated parse of s yields.
FreshState(s) == Parsed(FreshParse(s).header, FreshParse(s).entries)

\* C1: every snapshot delivered to the presentation surface by a text-change
\* push has the header fields and the entry list that an isolated parse of
\* some text the document has held yields.
C1_PushedSnapshotIsOfSomeHeldText ==
    \A i \in 1..Len(posted) :
        posted[i].delivered =>
            \E s \in held :
                Parsed(posted[i].params, posted[i].params.entries) = FreshState(s)

\* The position in an isolated parse of s of the first entry with this ref, 0
\* when s has no such entry.
IndexOfEntry(s, ref) == FindIndex(FreshParse(s).entries, ref)

\* The offset in s at which the action word of its i-th entry starts: the
\* match starts there, or one whitespace character before it.
ActionOffset(s, i) ==
    LET index == FreshParse(s).entries[i].index
    IN  IF IsSpaceAt(s, index) THEN index + 1 ELSE index

\* The line of text s on which the first entry with this ref stands, -1 when s
\* has no such entry.
LineOfEntry(s, ref) ==
    IF IndexOfEntry(s, ref) = 0 THEN -1
    ELSE LineAt(s, ActionOffset(s, IndexOfEntry(s, ref)))

\* C2: an edit made by a changeEntry or moveEntry request is applied to the
\* line on which the entry with the requested ref stands in the text the
\* document holds when the edit is applied (stated for the edits applied to a
\* text that still has such an entry).
C2_EditIsAtTheEntrysCurrentLine ==
    \A t \in Tasks :
        /\ tasks[t].kind \in {"changeEntry", "moveEntry"}
        /\ tasks[t].edit.made
        /\ LineOfEntry(tasks[t].edit.at, tasks[t].ref) # -1
        => tasks[t].edit.line = LineOfEntry(tasks[t].edit.at, tasks[t].ref)

\* C3: a parse that has returned yields, for the text it read, the header
\* fields and the entries that a parse of that text yields when no parse ran
\* before it.
C3_ParseDoesNotDependOnEarlierParses ==
    \A t \in Tasks :
        (Done(t) /\ tasks[t].contents # NoText) =>
            Parsed(tasks[t].header, tasks[t].entries) = FreshState(tasks[t].contents)

\* The pushes made by invocation t.
PushesOf(t) == {i \in 1..Len(posted) : posted[i].task = t}

\* The push invocations started so far.
DidChangeTasks == {t \in Tasks : tasks[t].kind = "didChange"}

\* Every push invocation was started by a content change of this document, one
\* for each such event heard; a push is a rebase/didChange message with a
\* snapshot, made by a push invocation, one when it has ended and none before.
PushesMatchChanges ==
    /\ Cardinality(DidChangeTasks) = nChanges
    /\ \A t \in DidChangeTasks :
           /\ tasks[t].event.contentChanges > 0 /\ tasks[t].event.sameDocument
           /\ Cardinality(PushesOf(t)) = IF Done(t) THEN 1 ELSE 0
    /\ \A i \in 1..Len(posted) :
           /\ posted[i].task \in DidChangeTasks
           /\ posted[i].method = "rebase/didChange"
           /\ posted[i].params = StateOf(tasks[posted[i].task])

\* C4: every text-change event of this document with a content change leads,
\* once the host's calls return, to exactly one rebase/didChange push with a
\* snapshot; the other text-change events lead to none.
C4_EveryContentChangeIsPushedOnce ==
    /\ []PushesMatchChanges
    /\ \A t \in 1..MaxTasks :
           (t <= Len(tasks) /\ tasks[t].kind = "didChange")
               ~> (Cardinality(PushesOf(t)) = 1)

\* A content change has been pushed, and a request has been handled besides.
C4_Witness ==
    \E t \in DidChangeTasks :
        /\ Done(t)
        /\ Cardinality(PushesOf(t)) = 1
        /\ \E u \in Tasks : tasks[u].kind \in {"start", "abort", "changeEntry"} /\ Done(u)

\* The lines of s, without their terminators.
Lines(s) == [l \in 1..LineCount(s) |-> LineText(s, l - 1)]

\* The text whose lines are ls.
RECURSIVE Join(_)
Join(ls) ==
    IF Len(ls) = 0 THEN <<>>
    ELSE IF Len(ls) = 1 THEN ls[1]
    ELSE ls[1] \o Newline \o Join(Tail(ls))

\* The line "{action} {ref} {message}" of the first entry of s with this ref.
Rewritten(s, ref, action) ==
    action \o Space \o ref \o Space \o FreshParse(s).entries[IndexOfEntry(s, ref)].message

\* The action of the first entry of s with this ref.
ActionOfEntry(s, ref) == FreshParse(s).entries[IndexOfEntry(s, ref)].action

\* C5: a changeEntry request handled on a text that has an entry with the ref
\* replaces the line that holds the first such entry by
\* "{newAction} {ref} {message}" and leaves every other line as it is.
C5_ChangeEntryReplacesTheEntrysLine ==
    \A t \in Tasks :
        /\ tasks[t].kind = "changeEntry"
        /\ Done(t)
        /\ IndexOfEntry(tasks[t].pre, tasks[t].ref) # 0
        => tasks[t].post =
              Join([Lines(tasks[t].pre) EXCEPT
                       ![LineOfEntry(tasks[t].pre, tasks[t].ref) + 1] =
                           Rewritten(tasks[t].pre, tasks[t].ref, tasks[t].action)])

\* The lines ls with line a (counted from 1) rewritten as entry and exchanged
\* with line b.
Exchanged(ls, a, b, entry) == [ls EXCEPT ![a] = ls[b], ![b] = entry]

\* Is the first entry of s with this ref at the boundary a move would cross?
AtBoundary(s, ref, down) ==
    IF down THEN IndexOfEntry(s, ref) = Len(FreshParse(s).entries)
    ELSE IndexOfEntry(s, ref) = 1

\* The text s with its last line terminated.
Terminated(s) ==
    IF s # <<>> /\ s[Len(s)] # "\n" THEN s \o Newline ELSE s

\* Does the match of the first entry of s with this ref start on the line of
\* its action word: no empty line before it was taken into the match.
MatchStartsOnOwnLine(s, ref) ==
    LineAt(s, FreshParse(s).entries[IndexOfEntry(s, ref)].index) = LineOfEntry(s, ref)

\* C6: a moveEntry request for an entry that is not at the boundary leaves the
\* text with the entry's line, rewritten as "{action} {ref} {message}",
\* exchanged with the adjacent line in the requested direction, and every
\* other line as it is (stated for the entries whose match starts on their
\* own line, and up to a terminator of the last line).
C6_MoveEntryExchangesAdjacentLines ==
    \A t \in Tasks :
        LET s == tasks[t].pre
            ref == tasks[t].ref
            l == LineOfEntry(s, ref) + 1
            m == IF tasks[t].down THEN l + 1 ELSE l - 1
        IN  /\ tasks[t].kind = "moveEntry"
            /\ Done(t)
            /\ IndexOfEntry(s, ref) # 0
            /\ ~AtBoundary(s, ref, tasks[t].down)
            /\ MatchStartsOnOwnLine(s, ref)
            /\ m \in 1..LineCount(s)
            => Terminated(tasks[t].post) =
                  Terminated(Join(Exchanged(Lines(s), l, m,
                                            Rewritten(s, ref, ActionOfEntry(s, ref)))))

\* C7: a moveEntry request that moves the first entry up or the last entry
\* down applies no edit, and the text after it is the text before it.
C7_MoveAtBoundaryIsNoOp ==
    \A t \in Tasks :
        /\ tasks[t].kind = "moveEntry"
        /\ Done(t)
        /\ IndexOfEntry(tasks[t].pre, tasks[t].ref) # 0
        /\ AtBoundary(tasks[t].pre, tasks[t].ref, tasks[t].down)
        => ~tasks[t].edit.made /\ tasks[t].post = tasks[t].pre

\* The last of several entries has been asked to move down, and the first to
\* move up, and both requests have been handled.
C7_Witness ==
    /\ \E t \in Tasks :
           /\ tasks[t].kind = "moveEntry" /\ Done(t) /\ tasks[t].down
           /\ IndexOfEntry(tasks[t].pre, tasks[t].ref) > 1
           /\ AtBoundary(tasks[t].pre, tasks[t].ref, TRUE)
    /\ \E t \in Tasks :
           /\ tasks[t].kind = "moveEntry" /\ Done(t) /\ ~tasks[t].down
           /\ Len(FreshParse(tasks[t].pre).entries) > 1
           /\ AtBoundary(tasks[t].pre, tasks[t].ref, FALSE)

\* Are t and u two requests handled in succession: only pushes started between them.
InSuccession(t, u) ==
    /\ t < u
    /\ Done(t) /\ Done(u)
    /\ \A v \in (t + 1)..(u - 1) : tasks[v].kind = "didChange"
    /\ tasks[u].pre = tasks[t].post

\* C8: handling the same changeEntry request twice in succession leaves the
\* text that handling it once leaves.
C8_ChangeEntryIsIdempotent ==
    \A t, u \in Tasks :
        /\ tasks[t].kind = "changeEntry" /\ tasks[u].kind = "changeEntry"
        /\ tasks[t].ref = tasks[u].ref /\ tasks[t].action = tasks[u].action
        /\ InSuccession(t, u)
        => tasks[u].post = tasks[t].post

\* Is p a prefix of q?
IsPrefix(p, q) == Len(p) <= Len(q) /\ p = SubSeq(q, 1, Len(p))

\* C9: an abort request handled on a non-empty text replaces the whole text by
\* the empty text, then has the document persisted, then has the editor
\* closed, and the text that is persisted is the empty text.
C9_AbortPersistsTheEmptyText ==
    \A t \in Tasks :
        (tasks[t].kind = "abort" /\ tasks[t].pre # <<>>) =>
            /\ tasks[t].edit.made
            /\ tasks[t].edit.at = tasks[t].pre
            /\ tasks[t].edit.result = <<>>
            /\ IsPrefix(tasks[t].did, <<"edit", "save", "close">>)
            /\ tasks[t].persisted \in {NoText, <<>>}

\* Does this step start invocation t or resume it?
Runs(t) == t > Len(tasks) \/ tasks'[t] # tasks[t]

\* C10: no step of a start request changes the text or applies an edit; the
\* request has the text persisted as the document holds it, and has the editor
\* closed only when the persistence has completed.
C10_StartOnlySavesThenCloses ==
    [][\A t \in 1..Len(tasks') :
          (tasks'[t].kind = "start" /\ Runs(t)) =>
              /\ text' = text
              /\ ~tasks'[t].edit.made
              /\ IsPrefix(tasks'[t].did, <<"save", "close">>)
              /\ saved' # saved => saved' = text /\ tasks'[t].did = <<"save">>
              /\ tasks'[t].did = <<"save">> => tasks'[t].persisted = text
              /\ panel' # panel => tasks[t].did = <<"save">>]_vars

\* A start request has been handled to its end after the text was changed in
\* the open editor: the changed text was persisted as it was, and the editor
\* is closed.
C10_Witness ==
    \E t \in Tasks :
        /\ tasks[t].kind = "start"
        /\ tasks[t].did = <<"save", "close">>
        /\ Cardinality(held) > 1
        /\ tasks[t].persisted = tasks[t].pre
        /\ text = tasks[t].pre
        /\ panel = "disposed"

\* The refs among these entries that getCommit resolves, in their order.
RECURSIVE ResolvedRefs(_)
ResolvedRefs(es) ==
    IF Len(es) = 0 THEN <<>>
    ELSE IF es[1].ref \in KnownRefs THEN <<es[1].ref>> \o ResolvedRefs(Tail(es))
    ELSE ResolvedRefs(Tail(es))

\* The entries of invocation t for which getCommit has returned: all but the
\* last while the invocation is suspended at getCommit.
Looked(t) ==
    IF tasks[t].pc = "getCommit"
    THEN SubSeq(tasks[t].entries, 1, Len(tasks[t].entries) - 1)
    ELSE tasks[t].entries

\* C11: in every parse, commits holds the commits of the entries whose ref
\* getCommit resolved, in entry order and with nothing in the place of an
\* unresolved ref; getCommit is awaited for one entry at a time, the last
\* one matched, before the next entry is matched.
C11_CommitsAreTheResolvedEntries ==
    \A t \in Tasks :
        /\ tasks[t].commits = ResolvedRefs(Looked(t))
        /\ Len(tasks[t].commits) =
              Len(Looked(t)) - Cardinality({i \in 1..Len(Looked(t)) :
                                              Looked(t)[i].ref \notin KnownRefs})
        /\ tasks[t].pc = "getCommit" => tasks[t].entries # <<>>

\* A parse has returned with a resolved entry and an unresolved one.
C11_Witness ==
    \E t \in Tasks :
        /\ Done(t)
        /\ Len(tasks[t].entries) = 2
        /\ tasks[t].entries[2].ref \notin KnownRefs
        /\ tasks[t].commits = <<tasks[t].entries[1].ref>>

\* Has invocation t matched the header of the text it read?
HeaderTried(t) ==
    tasks[t].contents # NoText /\ tasks[t].pc \in {"getCommit", "done"}

\* Is there no header directive that rebaseRegex matches anywhere in s?
HeaderAbsent(s) == ~IsMatch(ExecRebaseRegex(s, 0))

\* C12 as stated: a parse of a text without a header directive that can be
\* matched returns empty from, to and onto and an empty entry list.
C12_NoHeaderGivesNoEntries ==
    \A t \in Tasks :
        (Done(t) /\ HeaderTried(t) /\ HeaderAbsent(tasks[t].contents)) =>
            tasks[t].header = NoHeader /\ tasks[t].entries = <<>>

\* C12 as amended: a parse of a text without a header directive that can be
\* matched has empty from, to and onto, whatever entries it finds.
C12_NoHeaderGivesEmptyHeaderFields ==
    \A t \in Tasks :
        (HeaderTried(t) /\ HeaderAbsent(tasks[t].contents)) =>
            tasks[t].header = NoHeader

\* A parse of a text without a header has returned with entries.
C12_Witness ==
    \E t \in Tasks :
        /\ Done(t) /\ HeaderTried(t) /\ HeaderAbsent(tasks[t].contents)
        /\ tasks[t].header = NoHeader
        /\ Len(tasks[t].entries) = 2

\* The interleaved specification started with the counter at its initial value
\* or, after many pushes, about to wrap.
InitIpc ==
    /\ text = TextOne
    /\ saved = text
    /\ rebaseRegex = 0
    /\ rebaseCommandsRegex = 0
    /\ ipcSequence \in {0, MAX_SAFE_INTEGER - 1, MAX_SAFE_INTEGER}
    /\ html = <<>>
    /\ panel = "none"
    /\ panelId = 0
    /\ tasks = <<>>
    /\ posted = <<>>
    /\ held = {text}
    /\ nChanges = 0

SpecIpc == InitIpc /\ [][Next]_vars

\* C13: the counter changes only when a message is issued; the id issued is
\* the counter's new value, which is the old value plus 1, or 1 after
\* MAX_SAFE_INTEGER, and lies in 1..MAX_SAFE_INTEGER, so 0 is never issued;
\* the messages of every panel draw on the one counter.
C13_IdsCountUpAndWrapToOne ==
    [][/\ posted' = posted => ipcSequence' = ipcSequence
       /\ posted' # posted =>
            /\ Len(posted') = Len(posted) + 1
            /\ SubSeq(posted', 1, Len(posted)) = posted
            /\ posted'[Len(posted')].id = ipcSequence'
            /\ ipcSequence' = (ipcSequence % MAX_SAFE_INTEGER) + 1
            /\ ipcSequence' \in 1..MAX_SAFE_INTEGER]_vars

\* The id 1 has been issued right after the id MAX_SAFE_INTEGER.
C13_Witness ==
    \E i \in 1..(Len(posted) - 1) :
        posted[i].id = MAX_SAFE_INTEGER /\ posted[i + 1].id = 1

\* C14: whenever resolveCustomTextEditor has given a panel its markup, the
\* bootstrap snapshot in the markup is what an isolated parse of the text the
\* document holds at that time yields.
C14_BootstrapIsFreshParseAtLoad ==
    [][(panel' = "open" /\ panel # "open") =>
          /\ html' # <<>>
          /\ Parsed(html'[1], html'[1].entries) = FreshState(text)]_vars

\* Is l an instruction line as the handlers write it: a full action word, a
\* space, a ref, a space and the message?
WrittenEntryLine(l) ==
    \E a \in {2, 4, 6, 8, 10, 12, 14} :
        LET r == Len(ActionTokens[a]) + 1
            e == RunEnd(l, r, HexLower)
        IN  /\ StartsWith(l, 0, ActionTokens[a] \o Space)
            /\ e > r
            /\ e < Len(l)
            /\ At(l, e) = " "

\* Is s made of instruction lines in that form, comment lines and empty lines?
WellFormed(s) ==
    \A l \in 0..(LineCount(s) - 1) :
        \/ LineText(s, l) = <<>>
        \/ At(LineText(s, l), 0) = "#"
        \/ WrittenEntryLine(LineText(s, l))

\* The text s after "{action} {ref} {message}" of entry is written over the
\* line at the entry's offset.
WrittenBack(s, entry) == ApplyEdits(s, ChangeEntryEdits(s, entry, entry.action))

\* C15: for a well-formed text, writing "{action} {ref} {message}" of any
\* entry of its parse at the entry's offset leaves the text as it was.
C15_WritingEntriesBackIsIdentity ==
    \A t \in Tasks :
        (Done(t) /\ tasks[t].contents # NoText /\ WellFormed(tasks[t].contents)) =>
            \A i \in 1..Len(tasks[t].entries) :
                WrittenBack(tasks[t].contents, tasks[t].entries[i]) = tasks[t].contents


\* The offset in s at which the action word of a match starting at index
\* stands: the match starts there, or one whitespace character before it.
ActionStart(s, index) == IF IsSpaceAt(s, index) THEN index + 1 ELSE index

\* C16: in every returned parse, the offset recorded for an entry is the offset
\* of the first character of the line on which the entry's action word stands,
\* also when an empty line precedes the entry or the line begins with a
\* whitespace character.
C16_OffsetIsStartOfTheEntrysLine ==
    \A t \in Tasks :
        (Done(t) /\ tasks[t].contents # NoText) =>
            \A i \in 1..Len(tasks[t].entries) :
                LET s     == tasks[t].contents
                    index == tasks[t].entries[i].index
                IN  index = LineStart(s, LineAt(s, ActionStart(s, index)))


\* "p a m\n": its one entry ends at offset 5.
TextShort == <<"p", " ", "a", " ", "m", "\n">>

\* "pick a\npick b n\n": the entry without message takes the next line as its
\* message, so a parse from the start finds the one entry a.
TextSwallow == <<"p", "i", "c", "k", " ", "a", "\n">> \o EntryLine(Pick, "b", "n")

\* Invocations started in one behaviour of the specification below.
MaxStaleTasks == 6

\* Requests that overlap with one replacement of a short text by a longer one.
NextStale ==
    \/ Room(1, MaxStaleTasks) /\ Resolve
    \/ Room(1, MaxStaleTasks) /\ ExternalEdit(TextSwallow)
    \/ \E ref \in Refs, action \in Actions :
          Room(2, MaxStaleTasks) /\ ReceiveChangeEntry(ref, action)
    \/ \E ref \in Refs : Room(2, MaxStaleTasks) /\ ReceiveMoveEntry(ref, TRUE)
    \/ \E t \in 1..Len(tasks) : Step(t)

InitStale == text = TextShort /\ InitCommon

SpecStale == InitStale /\ [][NextStale]_vars

\* Text s, parsed from its start, has no entry with this ref.
NoSuchEntry(s, ref) == IndexOfEntry(s, ref) = 0

\* The text the document held when the handler of invocation t came back from
\* its parse: the text it edited, or the text it left alone.
TextAtEdit(t) == IF tasks[t].edit.made THEN tasks[t].edit.at ELSE tasks[t].post

\* C17: a changeEntry or moveEntry request whose ref is the ref of no entry of
\* the current text, parsed from its start, makes no edit (stated for the
\* requests whose handler read the text the document still held when the
\* handler came back from its parse).
C17_UnknownRefMakesNoEdit ==
    \A t \in Tasks :
        ( /\ Done(t)
          /\ tasks[t].kind \in {"changeEntry", "moveEntry"}
          /\ tasks[t].contents = TextAtEdit(t)
          /\ NoSuchEntry(tasks[t].contents, tasks[t].ref) )
        => ~tasks[t].edit.made


\* The surface that invocation t pushes to is there to receive a message.
SurfaceOpen(t) == tasks[t].panelId = panelId /\ panel = "open"

\* C18: a push is made by a step that takes the next message identifier; the
\* step records the push with postMessage's result, which is false exactly when
\* the surface of the pushing handler is gone; the handler ends, no other
\* invocation and nothing of the document or the panel is touched, and no
\* invocation is ever in a state other than suspended at one of its awaits or
\* ended.
C18_FailedPushIsSwallowed ==
    [][ /\ \A t \in Tasks :
              tasks'[t].pc \in {"getRepoPath", "getBranch", "getCommit", "applyEdit",
                                "save", "close", "done"}
        /\ ipcSequence' # ipcSequence =>
              /\ Len(posted') = Len(posted) + 1
              /\ LET p == posted'[Len(posted')]
                 IN  /\ p.task \in Tasks
                     /\ p.delivered = SurfaceOpen(p.task)
                     /\ tasks[p.task].pc # "done"
                     /\ tasks'[p.task].pc = "done"
                     /\ Len(tasks') = Len(tasks)
                     /\ \A u \in Tasks \ {p.task} : tasks'[u] = tasks[u]
              /\ UNCHANGED <<text, saved, html, panel, panelId, held, nChanges>> ]_vars

\* A push failed for a surface that was closed, and a later event, heard by the
\* surface opened after it, was parsed and pushed with success.
C18_Witness ==
    \E i, j \in 1..Len(posted) :
        /\ i < j
        /\ ~posted[i].delivered
        /\ panel = "open"
        /\ tasks[posted[i].task].panelId < panelId
        /\ tasks[posted[j].task].panelId = panelId
        /\ posted[j].delivered
        /\ Parsed(posted[j].params, posted[j].params.entries) = FreshState(text)


\* The snapshot of push i is what an isolated parse of text s yields.
SnapshotOf(i, s) == Parsed(posted[i].params, posted[i].params.entries) = FreshState(s)

\* C19: text-change events are not handled one after the other, and message
\* identifiers are taken when a snapshot is pushed, not when its event is
\* heard: whenever the push of an earlier event comes after the push of a
\* later event, it carries the larger identifier (the counter starts at 0 and
\* does not reach its wrap here).
C19_StalePushCarriesLargerId ==
    \A i, j \in 1..Len(posted) :
        (i < j /\ posted[j].task < posted[i].task) => posted[j].id > posted[i].id

\* Two text changes were heard one after the other; the snapshot of the
\* earlier text was pushed after the snapshot of the later text, which is the
\* text the document holds, and with the larger identifier.
C19_Witness ==
    \E i, j \in 1..Len(posted) :
        LET later == posted[i].task
            earlier == posted[j].task
        IN  /\ i < j
            /\ earlier < later
            /\ tasks[earlier].kind = "didChange"
            /\ tasks[later].kind = "didChange"
            /\ tasks[earlier].contents # tasks[later].contents
            /\ tasks[later].contents = text
            /\ SnapshotOf(j, tasks[earlier].contents)
            /\ SnapshotOf(i, tasks[later].contents)
            /\ ~SnapshotOf(j, text)
            /\ posted[i].delivered
            /\ posted[j].delivered
            /\ posted[j].id > posted[i].id


\* The (ref, message) pairs of the entries of text s, parsed from its start.
PairsOf(s) ==
    {<<FreshParse(s).entries[i].ref, FreshParse(s).entries[i].message>> :
        i \in 1..Len(FreshParse(s).entries)}

\* No two entries of text s have the same ref.
DistinctRefs(s) ==
    \A i, j \in 1..Len(FreshParse(s).entries) :
        FreshParse(s).entries[i].ref = FreshParse(s).entries[j].ref => i = j

\* C20: a changeEntry or moveEntry request handled to its end on a text whose
\* entries have distinct refs leaves a text with the same (ref, message) pairs,
\* each once: as many entries as before, with distinct refs and the same pairs
\* (one request, hence any sequence of them).
C20_RequestsKeepTheEntries ==
    \A t \in Tasks :
        ( /\ Done(t)
          /\ tasks[t].kind \in {"changeEntry", "moveEntry"}
          /\ tasks[t].pre # NoText
          /\ DistinctRefs(tasks[t].pre) )
        => /\ PairsOf(tasks[t].post) = PairsOf(tasks[t].pre)
           /\ Len(FreshParse(tasks[t].post).entries) = Len(FreshParse(tasks[t].pre).entries)
           /\ DistinctRefs(tasks[t].post)

=============================================================================
